---------------------------- MODULE Spec2Model ----------------------------
(***************************************************************************)
(* A model of the js-utils helper functions (src/utils.js and the later    *)
(* revisions of the same file kept in src/unnamed/part_000).               *)
(*                                                                         *)
(* Every function is a call on the single JavaScript thread.  A state      *)
(* records the call in progress or the last call made: which function      *)
(* (fn), the arguments given (args, a record from parameter names to       *)
(* values; a parameter that is not given has no field), the caller's       *)
(* array (arr), the values Math.random() returned (draws), the locals of   *)
(* the loops that are modelled step by step (i, value), an array that was  *)
(* built and dropped (tmp), the value returned (ret) and, when the         *)
(* argument is the result of an earlier call, that call (prev).            *)
(*                                                                         *)
(* Numbers are integers.  A value returned by Math.random() is k/RandDen   *)
(* for an integer k in 0..RandDen-1, so it lies in [0,1); a fractional     *)
(* result (random) is kept as its numerator over RandDen.  Arithmetic is   *)
(* exact: the rounding of IEEE-754 doubles is not modelled.  A string is   *)
(* a sequence of characters.  A returned value is a record: [num |-> n]    *)
(* a number, [elem |-> e] an array element, [x |-> , y |-> ] a pair of     *)
(* coordinates, [str |-> s] a string, Undefined the value undefined.       *)
(*                                                                         *)
(* Where revisions of one function differ, each revision is a definition   *)
(* of its own: the suffix _utils names the revision of src/utils.js, _v1   *)
(* the first and _v2 the second revision kept in part_000, and the plain   *)
(* name the last revision of part_000.                                     *)
(*                                                                         *)
(* The easing functions and random_normal work on fractions: such a number *)
(* is the record [num |-> p, den |-> q] of the fraction p/q in lowest      *)
(* terms.                                                                  *)
(***************************************************************************)
EXTENDS Integers, Sequences, FiniteSets, TLC

VARIABLES fn, args, arr, draws, i, value, tmp, ret, prev, pc

vars == <<fn, args, arr, draws, i, value, tmp, ret, prev, pc>>

---------------------------------------------------------------------------
(* Bounds of the model *)

\* Math.random() returns k/RandDen, k in 0..RandDen-1
RandDen == 6
\* numeric arguments of random and random_int range over -MaxArg..MaxArg
MaxArg == 6
\* arrays hold at most MaxLen elements
MaxLen == 3
\* indices given to xy_from_index range over 0..MaxIndex
MaxIndex == 50
\* small widths given to xy_from_index range over 1..MaxWidth
MaxWidth == 12
\* a width above 10^6, for which i / width can fall below 1e-6
BigWidth == 2000000
\* values given to wrap range over -MaxWrapVal..MaxWrapVal, and 65
MaxWrapVal == 8
\* limits given to wrap range over -MaxWrapLim..MaxWrapLim, and 60
MaxWrapLim == 2
\* a call of wrap is followed while its value stays within -WrapCap..WrapCap
WrapCap == 70
\* values given to clamp and constrain range over -MaxClampVal..MaxClampVal
MaxClampVal == 15
\* limits given to clamp and constrain range over -MaxClampLim..MaxClampLim
MaxClampLim == 10
\* numbers given to dec_to_hex range over 0..MaxDec
MaxDec == 300
\* paddings given to dec_to_hex range over 0..MaxPad
MaxPad == 4
\* the x given to an easing function is xn / (2 * EaseHalf), xn in 0..2*EaseHalf
EaseHalf == 2
\* degrees given to an easing function range over 1..MaxDegree
MaxDegree == 4
\* the transformed draw of random_normal is m / NormDen
NormDen == 4
\* m ranges over -NormOver .. NormDen + NormOver
NormOver == 2
\* limits given to random_normal range over -MaxNormLim..MaxNormLim
MaxNormLim == 1
\* skews given to random_normal range over 0..MaxSkew
MaxSkew == 2
\* the depth of the recursion of random_normal is counted up to MaxResample
MaxResample == 2

\* the elements arrays are built from
Elems == {"a", "b", "c"}

Args == -MaxArg .. MaxArg
Draws == 0 .. (RandDen - 1)
Widths == (1 .. MaxWidth) \cup {BigWidth}
Arrays == UNION {[1..n -> Elems] : n \in 0..MaxLen}
EaseDen == 2 * EaseHalf
NormNums == (-NormOver) .. (NormDen + NormOver)

---------------------------------------------------------------------------
(* Values and arguments *)

\* the JavaScript value undefined
Undefined == [undefined |-> TRUE]

Num(n) == [num |-> n]

\* the outcome of a call that throws an error of the given name
Raised(name) == [error |-> name]

\* a call without arguments
NoArgs == <<>>

\* whether the argument named p is given (is not undefined)
Given(as, p) == p \in DOMAIN as

\* the argument named p, or the parameter's default when it is not given
Arg(as, p, default) == IF Given(as, p) THEN as[p] ELSE default

---------------------------------------------------------------------------
(* random and random_int *)

\* a faulty variant adding b where a is meant
random_scaled_from_b(a, b, k) == k * (b - a) + b * RandDen

\* Math.random() * (b - a) + a for the draw k/RandDen, as a numerator over RandDen
random_scaled(a, b, k) == k * (b - a) + a * RandDen

\* a faulty variant rounding up where Math.floor is meant
random_int_ceil(a, b, k) == ((k * (b - a) + RandDen - 1) \div RandDen) + a

\* Math.floor(Math.random() * (b - a)) + a for the draw k/RandDen
random_int_scaled(a, b, k) == ((k * (b - a)) \div RandDen) + a

random_utils(as, k) ==
  IF ~Given(as, "a") /\ ~Given(as, "b") THEN Num(random_scaled(0, 1, k))
  ELSE IF ~Given(as, "b") THEN Num(random_scaled(0, as.a, k))
  ELSE IF Given(as, "a") /\ Given(as, "b") THEN Num(random_scaled(as.a, as.b, k))
  ELSE Undefined

\* a and b default to null, and null counts as 0 in the arithmetic
random(as, k) ==
  IF ~Given(as, "a") /\ ~Given(as, "b") THEN Num(random_scaled(0, 1, k))
  ELSE IF ~Given(as, "b") THEN Num(random_scaled(0, as.a, k))
  ELSE Num(random_scaled(Arg(as, "a", 0), as.b, k))

random_int_utils(as, k) ==
  IF ~Given(as, "a") /\ ~Given(as, "b") THEN Num(random_int_scaled(0, 1, k))
  ELSE IF ~Given(as, "b") THEN Num(random_int_scaled(0, as.a, k))
  ELSE IF Given(as, "a") /\ Given(as, "b")
    THEN Num(random_int_scaled(as.a, as.b, k))
  ELSE Undefined

random_int(as, k) ==
  IF ~Given(as, "a") /\ ~Given(as, "b") THEN Num(random_int_scaled(0, 2, k))
  ELSE IF ~Given(as, "b") THEN Num(random_int_scaled(0, as.a, k))
  ELSE Num(random_int_scaled(Arg(as, "a", 0), as.b, k))

---------------------------------------------------------------------------
(* random_from_array *)

\* a faulty variant throwing where a read outside the array gives undefined
ArrayGet_checked(a, idx) ==
  IF idx \in 0 .. (Len(a) - 1) THEN [elem |-> a[idx + 1]]
  ELSE Raised("EmptyInputError")

\* a[idx] in JavaScript: undefined outside 0..a.length-1
ArrayGet(a, idx) ==
  IF idx \in 0 .. (Len(a) - 1) THEN [elem |-> a[idx + 1]] ELSE Undefined

\* the index each revision computes
random_index_utils(a, k) == random_int_utils([a |-> Len(a) - 1], k).num
random_index_v1(a, k) == random_int([a |-> Len(a)], k).num
random_index(a, k) == (k * Len(a)) \div RandDen

random_from_array_utils(a, k) == ArrayGet(a, random_index_utils(a, k))
random_from_array_v1(a, k) == ArrayGet(a, random_index_v1(a, k))
random_from_array(a, k) == ArrayGet(a, random_index(a, k))

---------------------------------------------------------------------------
(* xy_from_index and index_from_xy *)

\* the first significant decimal digit of n/d, for 0 < n/d < 1
RECURSIVE LeadingDigit(_, _)
LeadingDigit(n, d) == IF n >= d THEN n \div d ELSE LeadingDigit(10 * n, d)

\* parseInt(n / d) for n >= 0, d > 0: the quotient is converted to a string and
\* the digits in front of the first character that is no digit are read back.
\* A quotient below 1e-6 is written in exponent notation ("5e-7"), so what is
\* read is its first significant digit; any other quotient is written in
\* decimal notation and what is read is its integer part.
parseInt_quotient(n, d) ==
  IF n = 0 THEN 0
  ELSE IF n * 1000000 < d THEN LeadingDigit(n, d)
  ELSE n \div d

xy_from_index_utils(idx, width) ==
  [x |-> idx % width, y |-> parseInt_quotient(idx, width)]

xy_from_index(idx, width) ==
  [x |-> idx % width, y |-> idx \div width]

index_from_xy(x, y, width) == Num(x + width * y)

---------------------------------------------------------------------------
(* shuffle_array *)

\* a faulty variant writing a[p] and then copying it back: a[p] = a[q]; a[q] = a[p]
Swap_overwrite(a, p, q) == [a EXCEPT ![p + 1] = a[q + 1]]

\* [a[p], a[q]] = [a[q], a[p]], for indices p, q counted from 0
Swap(a, p, q) == [a EXCEPT ![p + 1] = a[q + 1], ![q + 1] = a[p + 1]]

\* Math.floor(Math.random() * (idx + 1)) for the draw k/RandDen
shuffle_j(idx, k) == (k * (idx + 1)) \div RandDen

\* the array the loop of the Fisher-Yates revisions leaves, entered with the
\* loop index idx and drawing ds
RECURSIVE shuffle_array_utils(_, _, _)
shuffle_array_utils(a, idx, ds) ==
  IF idx > 0
    THEN shuffle_array_utils(Swap(a, idx, shuffle_j(idx, Head(ds))),
                             idx - 1, Tail(ds))
    ELSE a

\* the place .sort((a, b) => a.order - b.order) gives element p: after the
\* elements of smaller order, and after those of equal order that come first
SortRank(orders, p) ==
  Cardinality({q \in 1 .. Len(orders) :
                 orders[q] < orders[p] \/ (orders[q] = orders[p] /\ q < p)}) + 1

\* a.map(x => ({val, order})).sort(by order).map(x => x.val)
SortByOrder(a, orders) ==
  [p \in 1 .. Len(a) |-> a[CHOOSE q \in 1 .. Len(a) : SortRank(orders, q) = p]]

\* The last revision: map, sort and map each build a new array, and the value
\* of the whole expression is dropped.  arr is the caller's array after the
\* call, sorted the array that was built.
shuffle_array(a, orders) == [arr |-> a, sorted |-> SortByOrder(a, orders)]

---------------------------------------------------------------------------
(* wrap, clamp and constrain *)

min_val(as) == Arg(as, "min_val", 0)
max_val(as) == Arg(as, "max_val", 1)

\* a faulty variant taking max_val for the width of the interval
wrap_sub_max(v, lo, hi) == v - hi

\* value -= max_val - min_val
wrap_sub(v, lo, hi) == v - (hi - lo)

\* value += max_val - min_val
wrap_add(v, lo, hi) == v + (hi - lo)

Max(a, b) == IF a >= b THEN a ELSE b
Min(a, b) == IF a <= b THEN a ELSE b

\* a faulty variant with Math.min and Math.max exchanged
clamp_exchanged(as) == Num(Max(Min(min_val(as), as.value), max_val(as)))

clamp(as) == Num(Min(Max(min_val(as), as.value), max_val(as)))

constrain(as) == Num(Max(Min(as.value, max_val(as)), min_val(as)))

---------------------------------------------------------------------------
(* dec_to_hex and hex_to_dec *)

LowerDigits == <<"0", "1", "2", "3", "4", "5", "6", "7", "8", "9",
                 "a", "b", "c", "d", "e", "f">>
UpperDigits == <<"0", "1", "2", "3", "4", "5", "6", "7", "8", "9",
                 "A", "B", "C", "D", "E", "F">>

\* what parseInt returns when it reads no digit
NaN == -1

\* dec.toString(16), for an integer dec >= 0
RECURSIVE toString16(_)
toString16(n) ==
  IF n < 16 THEN <<LowerDigits[n + 1]>>
  ELSE Append(toString16(n \div 16), LowerDigits[(n % 16) + 1])

\* s.padStart(len, "0")
RECURSIVE padStart(_, _)
padStart(s, len) == IF Len(s) >= len THEN s ELSE padStart(<<"0">> \o s, len)

UpperChar(c) ==
  IF \E d \in 1 .. 16 : LowerDigits[d] = c
    THEN UpperDigits[CHOOSE d \in 1 .. 16 : LowerDigits[d] = c]
    ELSE IF c = "x" THEN "X" ELSE c

toUpperCase(s) == [p \in 1 .. Len(s) |-> UpperChar(s[p])]

\* a faulty variant putting "0x" in front before the padding and the upper-casing
dec_to_hex_prefix_first(as) ==
  LET padding == Arg(as, "padding", 0)
      prefix == Arg(as, "prefix", FALSE)
      hex == IF prefix THEN <<"0", "x">> \o toString16(as.dec)
                       ELSE toString16(as.dec)
  IN  [str |-> toUpperCase(padStart(hex, padding))]

\* dec_to_hex(dec, padding = 0, prefix = false, round = true); Math.floor
\* leaves the integer dec as it is
dec_to_hex(as) ==
  LET padding == Arg(as, "padding", 0)
      prefix == Arg(as, "prefix", FALSE)
      hex == toUpperCase(padStart(toString16(as.dec), padding))
  IN  [str |-> IF prefix THEN <<"0", "x">> \o hex ELSE hex]

IsHexDigit(c) == \E d \in 1 .. 16 : LowerDigits[d] = c \/ UpperDigits[d] = c
HexValue(c) ==
  (CHOOSE d \in 1 .. 16 : LowerDigits[d] = c \/ UpperDigits[d] = c) - 1

\* the value of the hex digits in front of the first character that is none,
\* continuing from acc; seen says whether a digit has been read
RECURSIVE ParseDigits(_, _, _)
ParseDigits(s, acc, seen) ==
  IF s # <<>> /\ IsHexDigit(Head(s))
    THEN ParseDigits(Tail(s), 16 * acc + HexValue(Head(s)), TRUE)
    ELSE IF seen THEN acc ELSE NaN

\* parseInt(s, 16): a leading "0x" or "0X" is skipped
parseInt16(s) ==
  IF Len(s) >= 2 /\ s[1] = "0" /\ s[2] \in {"x", "X"}
    THEN ParseDigits(SubSeq(s, 3, Len(s)), 0, FALSE)
    ELSE ParseDigits(s, 0, FALSE)

hex_to_dec(hex) == Num(parseInt16(hex))

---------------------------------------------------------------------------
(* Fractions and powers *)

RECURSIVE GCD(_, _)
GCD(a, b) == IF b = 0 THEN a ELSE GCD(b, a % b)

Abs(n) == IF n < 0 THEN -n ELSE n

\* the number p/q, q > 0, in lowest terms
Frac(p, q) ==
  LET g == GCD(Abs(p), q) IN [num |-> p \div g, den |-> q \div g]

\* Math.pow(b, e) and b ** e for an integer e >= 0; b ** 0 is 1 for every b
RECURSIVE Pow(_, _)
Pow(b, e) == IF e = 0 THEN 1 ELSE b * Pow(b, e - 1)

---------------------------------------------------------------------------
(* poly_ease_inout, poly_ease_in and poly_ease_out *)

\* The argument x is the fraction xn/EaseDen, so x ** n is
\* Pow(xn, n)/Pow(EaseDen, n), -2 * x + 2 is (2 * EaseDen - 2 * xn)/EaseDen and
\* x < 0.5 is 2 * xn < EaseDen.

\* Math.pow(2, n - 1) * Math.pow(x, n)
ease_in_branch(xn, n) == Frac(Pow(2, n - 1) * Pow(xn, n), Pow(EaseDen, n))

\* 1 - Math.pow(-2 * x + 2, n) / 2
ease_out_branch_v2(xn, n) ==
  Frac(2 * Pow(EaseDen, n) - Pow(2 * EaseDen - 2 * xn, n), 2 * Pow(EaseDen, n))

\* 1 - (-2 * x + 2) ** n / 2 ** (n - 1)
ease_out_branch(xn, n) ==
  Frac(Pow(2, n - 1) * Pow(EaseDen, n) - Pow(2 * EaseDen - 2 * xn, n),
       Pow(2, n - 1) * Pow(EaseDen, n))

poly_ease_inout_v2(xn, n) ==
  IF 2 * xn < EaseDen THEN ease_in_branch(xn, n) ELSE ease_out_branch_v2(xn, n)

poly_ease_in_v2(xn, n) == ease_in_branch(xn, n)

poly_ease_out_v2(xn, n) == ease_out_branch_v2(xn, n)

poly_ease_inout(xn, n) ==
  IF 2 * xn < EaseDen THEN ease_in_branch(xn, n) ELSE ease_out_branch(xn, n)

\* x ** n
poly_ease_in(xn, n) == Frac(Pow(xn, n), Pow(EaseDen, n))

\* 1 - (1 - x) ** n
poly_ease_out(xn, n) ==
  Frac(Pow(EaseDen, n) - Pow(EaseDen - xn, n), Pow(EaseDen, n))

\* the function named f applied to x = xn/EaseDen and the degree n
Ease(f, xn, n) ==
  CASE f = "poly_ease_inout_v2" -> poly_ease_inout_v2(xn, n)
    [] f = "poly_ease_in_v2" -> poly_ease_in_v2(xn, n)
    [] f = "poly_ease_out_v2" -> poly_ease_out_v2(xn, n)
    [] f = "poly_ease_inout" -> poly_ease_inout(xn, n)
    [] f = "poly_ease_in" -> poly_ease_in(xn, n)
    [] f = "poly_ease_out" -> poly_ease_out(xn, n)

---------------------------------------------------------------------------
(* random_normal *)

\* The transformed draw num = Math.sqrt(-2.0 * Math.log(u)) *
\* Math.cos(2.0 * Math.PI * v) / 10.0 + 0.5 is the fraction m/NormDen.  The
\* square root, the logarithm and the cosine are not computed: for u and v in
\* (0,1) the transform can give any real number, so m is any of NormNums.
BoxMuller(u, v) == NormNums

\* a faulty variant testing the upper limit alone
normal_rejects_above(m) == m > NormDen

\* num > 1 || num < 0
normal_rejects(m) == m > NormDen \/ m < 0

\* a faulty variant with the default skew = 1
normal_skew_one(as) == Arg(as, "skew", 1)

normal_skew(as) == Arg(as, "skew", 0)

\* Math.pow(num, skew) * (max - min) + min for num = m/NormDen
normal_result(as, m) ==
  LET lo == Arg(as, "min", 0)
      hi == Arg(as, "max", 1)
      s == normal_skew(as)
  IN  Frac(Pow(m, s) * (hi - lo) + lo * Pow(NormDen, s), Pow(NormDen, s))

---------------------------------------------------------------------------
(* The state machine *)

\* The functions keep no state between calls, so a behaviour is one call, or
\* one call whose result is handed to a second function.
Idle == pc = "idle"

Init ==
  /\ fn = "none"
  /\ args = NoArgs
  /\ arr = <<>>
  /\ draws = <<>>
  /\ i = 0
  /\ value = 0
  /\ tmp = <<>>
  /\ ret = Undefined
  /\ prev = NoArgs
  /\ pc = "idle"

\* a call of a function that returns in one step
Return(f, as, a, ds, r, p) ==
  /\ fn' = f
  /\ args' = as
  /\ arr' = a
  /\ draws' = ds
  /\ ret' = r
  /\ prev' = p
  /\ pc' = "done"
  /\ UNCHANGED <<i, value, tmp>>

RandomArgs ==
  {NoArgs} \cup {[a |-> a] : a \in Args} \cup {[b |-> b] : b \in Args}
    \cup {[a |-> a, b |-> b] : a \in Args, b \in Args}

Call_random_utils ==
  /\ Idle
  /\ \E as \in RandomArgs, k \in Draws :
       Return("random_utils", as, <<>>, <<k>>, random_utils(as, k), NoArgs)

Call_random ==
  /\ Idle
  /\ \E as \in RandomArgs, k \in Draws :
       Return("random", as, <<>>, <<k>>, random(as, k), NoArgs)

Call_random_int_utils ==
  /\ Idle
  /\ \E as \in RandomArgs, k \in Draws :
       Return("random_int_utils", as, <<>>, <<k>>, random_int_utils(as, k),
              NoArgs)

Call_random_int ==
  /\ Idle
  /\ \E as \in RandomArgs, k \in Draws :
       Return("random_int", as, <<>>, <<k>>, random_int(as, k), NoArgs)

Call_random_from_array_utils ==
  /\ Idle
  /\ \E a \in Arrays, k \in Draws :
       Return("random_from_array_utils", [arr |-> a], a, <<k>>,
              random_from_array_utils(a, k), NoArgs)

Call_random_from_array_v1 ==
  /\ Idle
  /\ \E a \in Arrays, k \in Draws :
       Return("random_from_array_v1", [arr |-> a], a, <<k>>,
              random_from_array_v1(a, k), NoArgs)

Call_random_from_array ==
  /\ Idle
  /\ \E a \in Arrays, k \in Draws :
       Return("random_from_array", [arr |-> a], a, <<k>>,
              random_from_array(a, k), NoArgs)

Call_xy_from_index_utils ==
  /\ Idle
  /\ \E idx \in 0 .. MaxIndex, w \in Widths :
       Return("xy_from_index_utils", [i |-> idx, width |-> w], <<>>, <<>>,
              xy_from_index_utils(idx, w), NoArgs)

Call_xy_from_index ==
  /\ Idle
  /\ \E idx \in 0 .. MaxIndex, w \in Widths :
       Return("xy_from_index", [i |-> idx, width |-> w], <<>>, <<>>,
              xy_from_index(idx, w), NoArgs)

\* index_from_xy called on the coordinates xy_from_index has just returned
Call_index_from_xy ==
  /\ pc = "done"
  /\ fn \in {"xy_from_index_utils", "xy_from_index"}
  /\ Return("index_from_xy", [x |-> ret.x, y |-> ret.y, width |-> args.width],
            <<>>, <<>>, index_from_xy(ret.x, ret.y, args.width),
            [fn |-> fn, args |-> args])

---------------------------------------------------------------------------
(* shuffle_array, the Fisher-Yates revisions, one loop iteration a step *)

Call_shuffle_array_utils ==
  /\ Idle
  /\ \E a \in Arrays :
       /\ fn' = "shuffle_array_utils"
       /\ args' = [arr |-> a]
       /\ arr' = a
       /\ i' = Len(a) - 1
  /\ pc' = "shuffle_loop"
  /\ UNCHANGED <<draws, value, tmp, ret, prev>>

ShuffleSwap ==
  /\ pc = "shuffle_loop"
  /\ i > 0
  /\ \E k \in Draws :
       /\ arr' = Swap(arr, i, shuffle_j(i, k))
       /\ draws' = Append(draws, k)
  /\ i' = i - 1
  /\ UNCHANGED <<fn, args, value, tmp, ret, prev, pc>>

ShuffleReturn ==
  /\ pc = "shuffle_loop"
  /\ ~(i > 0)
  /\ pc' = "done"
  /\ UNCHANGED <<fn, args, arr, draws, i, value, tmp, ret, prev>>

\* shuffle_array, the last revision
Call_shuffle_array ==
  /\ Idle
  /\ \E a \in Arrays :
       \E orders \in [1 .. Len(a) -> Draws] :
         /\ fn' = "shuffle_array"
         /\ args' = [arr |-> a]
         /\ arr' = shuffle_array(a, orders).arr
         /\ tmp' = shuffle_array(a, orders).sorted
         /\ draws' = orders
  /\ pc' = "done"
  /\ UNCHANGED <<i, value, ret, prev>>

---------------------------------------------------------------------------
(* wrap, one loop iteration a step *)

WrapVals == (-MaxWrapVal .. MaxWrapVal) \cup {65}
WrapLims == (-MaxWrapLim .. MaxWrapLim) \cup {60}
WrapArgs ==
  {[value |-> v] : v \in WrapVals}
    \cup {[value |-> v, min_val |-> lo] : v \in WrapVals, lo \in WrapLims}
    \cup {[value |-> v, min_val |-> lo, max_val |-> hi] :
            v \in WrapVals, lo \in WrapLims, hi \in WrapLims}

Call_wrap ==
  /\ Idle
  /\ \E as \in WrapArgs :
       /\ fn' = "wrap"
       /\ args' = as
       /\ value' = as.value
  /\ pc' = "wrap_while1"
  /\ UNCHANGED <<arr, draws, i, tmp, ret, prev>>

InCap(v) == -WrapCap <= v /\ v <= WrapCap

\* while (value > max_val) value -= max_val - min_val;
WrapAbove ==
  /\ pc = "wrap_while1"
  /\ value > max_val(args)
  /\ InCap(wrap_sub(value, min_val(args), max_val(args)))
  /\ value' = wrap_sub(value, min_val(args), max_val(args))
  /\ UNCHANGED <<fn, args, arr, draws, i, tmp, ret, prev, pc>>

WrapAboveExit ==
  /\ pc = "wrap_while1"
  /\ ~(value > max_val(args))
  /\ pc' = "wrap_while2"
  /\ UNCHANGED <<fn, args, arr, draws, i, value, tmp, ret, prev>>

\* while (value < min_val) value += max_val - min_val;
WrapBelow ==
  /\ pc = "wrap_while2"
  /\ value < min_val(args)
  /\ InCap(wrap_add(value, min_val(args), max_val(args)))
  /\ value' = wrap_add(value, min_val(args), max_val(args))
  /\ UNCHANGED <<fn, args, arr, draws, i, tmp, ret, prev, pc>>

WrapReturn ==
  /\ pc = "wrap_while2"
  /\ ~(value < min_val(args))
  /\ ret' = Num(value)
  /\ pc' = "done"
  /\ UNCHANGED <<fn, args, arr, draws, i, value, tmp, prev>>

WrapStep == WrapAbove \/ WrapAboveExit \/ WrapBelow \/ WrapReturn

---------------------------------------------------------------------------
(* clamp, constrain, dec_to_hex, hex_to_dec *)

ClampArgs ==
  LET Vals == -MaxClampVal .. MaxClampVal
      Lims == -MaxClampLim .. MaxClampLim
  IN  {[value |-> v] : v \in Vals}
        \cup {[value |-> v, min_val |-> lo] : v \in Vals, lo \in Lims}
        \cup {[value |-> v, min_val |-> lo, max_val |-> hi] :
                v \in Vals, lo \in Lims, hi \in Lims}

Call_clamp ==
  /\ Idle
  /\ \E as \in ClampArgs :
       Return("clamp", as, <<>>, <<>>, clamp(as), NoArgs)

Call_constrain ==
  /\ Idle
  /\ \E as \in ClampArgs :
       Return("constrain", as, <<>>, <<>>, constrain(as), NoArgs)

HexArgs ==
  {[dec |-> n] : n \in 0 .. MaxDec}
    \cup {[dec |-> n, padding |-> p] : n \in 0 .. MaxDec, p \in 0 .. MaxPad}
    \cup {[dec |-> n, padding |-> p, prefix |-> x] :
            n \in 0 .. MaxDec, p \in 0 .. MaxPad, x \in BOOLEAN}

Call_dec_to_hex ==
  /\ Idle
  /\ \E as \in HexArgs :
       Return("dec_to_hex", as, <<>>, <<>>, dec_to_hex(as), NoArgs)

\* hex_to_dec called on the string dec_to_hex has just returned
Call_hex_to_dec ==
  /\ pc = "done"
  /\ fn = "dec_to_hex"
  /\ Return("hex_to_dec", [hex |-> ret.str], <<>>, <<>>, hex_to_dec(ret.str),
            [fn |-> fn, args |-> args])

---------------------------------------------------------------------------
(* The easing functions *)

EaseFns_v2 == {"poly_ease_inout_v2", "poly_ease_in_v2", "poly_ease_out_v2"}
EaseFns_last == {"poly_ease_inout", "poly_ease_in", "poly_ease_out"}

\* the second revision has no default for n: it is called with a degree
EaseArgs_v2 == {[x |-> xn, n |-> n] : xn \in 0 .. EaseDen, n \in 1 .. MaxDegree}

\* the last revision takes n = 2 when no degree is given
EaseArgs == EaseArgs_v2 \cup {[x |-> xn] : xn \in 0 .. EaseDen}

Call_poly_ease_v2 ==
  /\ Idle
  /\ \E f \in EaseFns_v2, as \in EaseArgs_v2 :
       Return(f, as, <<>>, <<>>, Ease(f, as.x, as.n), NoArgs)

Call_poly_ease ==
  /\ Idle
  /\ \E f \in EaseFns_last, as \in EaseArgs :
       Return(f, as, <<>>, <<>>, Ease(f, as.x, Arg(as, "n", 2)), NoArgs)

---------------------------------------------------------------------------
(* random_normal, one draw or one test of num a step *)

NormalArgs ==
  LET Lims == (-MaxNormLim) .. MaxNormLim
  IN  {NoArgs} \cup {[min |-> lo] : lo \in Lims}
        \cup {[min |-> lo, max |-> hi] : lo \in Lims, hi \in Lims}
        \cup {[min |-> lo, max |-> hi, skew |-> s] :
                lo \in Lims, hi \in Lims, s \in 0 .. MaxSkew}

Call_random_normal ==
  /\ Idle
  /\ \E as \in NormalArgs :
       /\ fn' = "random_normal"
       /\ args' = as
  /\ pc' = "normal_u"
  /\ UNCHANGED <<arr, draws, i, value, tmp, ret, prev>>

\* while (u == 0) u = Math.random(); the call's own num is not computed yet
NormalDrawU ==
  /\ pc = "normal_u"
  /\ \E k \in Draws :
       /\ draws' = <<k>>
       /\ pc' = IF k = 0 THEN "normal_u" ELSE "normal_v"
  /\ value' = 0
  /\ UNCHANGED <<fn, args, arr, i, tmp, ret, prev>>

\* while (v == 0) v = Math.random()
NormalDrawV ==
  /\ pc = "normal_v"
  /\ \E k \in Draws :
       /\ draws' = <<draws[1], k>>
       /\ pc' = IF k = 0 THEN "normal_v" ELSE "normal_num"
  /\ UNCHANGED <<fn, args, arr, i, value, tmp, ret, prev>>

\* num is computed and tested.  Out of range, random_normal calls itself with
\* the same arguments and returns what that call returns, so the call starts
\* again (i counts the depth); in range, num is skewed, stretched and returned.
NormalTransform ==
  /\ pc = "normal_num"
  /\ \E m \in BoxMuller(draws[1], draws[2]) :
       /\ value' = m
       /\ IF normal_rejects(m)
            THEN /\ pc' = "normal_u"
                 /\ draws' = <<>>
                 /\ i' = Min(i + 1, MaxResample)
                 /\ UNCHANGED ret
            ELSE /\ pc' = "done"
                 /\ ret' = normal_result(args, m)
                 /\ UNCHANGED <<draws, i>>
  /\ UNCHANGED <<fn, args, arr, tmp, prev>>

NormalStep == NormalDrawU \/ NormalDrawV \/ NormalTransform

---------------------------------------------------------------------------

Next ==
  \/ Call_random_utils
  \/ Call_random
  \/ Call_random_int_utils
  \/ Call_random_int
  \/ Call_random_from_array_utils
  \/ Call_random_from_array_v1
  \/ Call_random_from_array
  \/ Call_xy_from_index_utils
  \/ Call_xy_from_index
  \/ Call_index_from_xy
  \/ Call_shuffle_array_utils
  \/ ShuffleSwap
  \/ ShuffleReturn
  \/ Call_shuffle_array
  \/ Call_wrap
  \/ WrapStep
  \/ Call_clamp
  \/ Call_constrain
  \/ Call_dec_to_hex
  \/ Call_hex_to_dec
  \/ Call_poly_ease_v2
  \/ Call_poly_ease
  \/ Call_random_normal
  \/ NormalStep

Spec == Init /\ [][Next]_vars

\* A call runs to its end on the one thread: a loop iteration or an exit that
\* can be taken is taken.
FairSpec ==
  /\ Spec
  /\ WF_vars(WrapStep)
  /\ WF_vars(ShuffleSwap \/ ShuffleReturn)
  /\ WF_vars(NormalStep)

---------------------------------------------------------------------------
(* C1: xy_from_index and index_from_xy *)

\* C1: for every width w > 0 and every index i >= 0, index_from_xy applied to
\* the coordinates xy_from_index(i, w) returns i again, and the x coordinate
\* lies in 0..w-1.  Stated for every revision of xy_from_index.
C1_RoundTrip ==
  (fn = "index_from_xy" /\ pc = "done") =>
    /\ ret = Num(prev.args.i)
    /\ 0 <= args.x /\ args.x < args.width

\* The same round trip for the last revision (Math.floor) alone.
RoundTrip_floor ==
  (fn = "index_from_xy" /\ pc = "done" /\ prev.fn = "xy_from_index") =>
    /\ ret = Num(prev.args.i)
    /\ 0 <= args.x /\ args.x < args.width

---------------------------------------------------------------------------
(* C2, C3: random_int and random *)

\* C2: random_int(a, b) with a < b returns an integer k with a <= k < b, and
\* random_int(a) with a > 0 returns an integer in [0, a), whatever the draw.
C2_RandomIntInRange ==
  (fn \in {"random_int_utils", "random_int"} /\ pc = "done"
     /\ Given(args, "a")) =>
    /\ (Given(args, "b") /\ args.a < args.b) =>
         (args.a <= ret.num /\ ret.num < args.b)
    /\ (~Given(args, "b") /\ args.a > 0) => (0 <= ret.num /\ ret.num < args.a)

\* random_int(0, 6) has returned 5, the largest value of its range
C2_Witness ==
  /\ fn = "random_int" /\ pc = "done"
  /\ args = [a |-> 0, b |-> 6] /\ draws = <<RandDen - 1>> /\ ret = Num(5)

\* C3: random() returns a value in [0,1), random(a) with a > 0 a value in
\* [0,a) and random(a, b) with a < b a value v with a <= v < b, whatever the
\* draw.  ret.num is the numerator of the value over RandDen.
C3_RandomInRange ==
  (fn \in {"random_utils", "random"} /\ pc = "done") =>
    /\ args = NoArgs => (0 <= ret.num /\ ret.num < RandDen)
    /\ (Given(args, "a") /\ ~Given(args, "b") /\ args.a > 0) =>
         (0 <= ret.num /\ ret.num < args.a * RandDen)
    /\ (Given(args, "a") /\ Given(args, "b") /\ args.a < args.b) =>
         (args.a * RandDen <= ret.num /\ ret.num < args.b * RandDen)

\* random(2, 5) has returned its largest value, for the largest draw
C3_Witness ==
  /\ fn = "random" /\ pc = "done"
  /\ args = [a |-> 2, b |-> 5] /\ draws = <<RandDen - 1>>
  /\ ret = Num(5 * RandDen - 3)

---------------------------------------------------------------------------
(* C4: random_from_array *)

RandomFromArrayFns ==
  {"random_from_array_utils", "random_from_array_v1", "random_from_array"}

\* the index the revision f of random_from_array computes for the draw k
RandomIndexOf(f, a, k) ==
  CASE f = "random_from_array_utils" -> random_index_utils(a, k)
    [] f = "random_from_array_v1" -> random_index_v1(a, k)
    [] OTHER -> random_index(a, k)

\* C4: on a non-empty array random_from_array returns the element at an index
\* in 0..length-1, and every index, the last one included, is the one chosen
\* for at least one draw.  Stated for every revision of random_from_array.
C4_EveryIndexReturned ==
  (fn \in RandomFromArrayFns /\ pc = "done" /\ Len(arr) > 0) =>
    /\ RandomIndexOf(fn, arr, draws[1]) \in 0 .. (Len(arr) - 1)
    /\ ret = [elem |-> arr[RandomIndexOf(fn, arr, draws[1]) + 1]]
    /\ \A idx \in 0 .. (Len(arr) - 1) :
         \E k \in Draws : RandomIndexOf(fn, arr, k) = idx

\* The same for the two revisions of part_000 alone.
EveryIndexReturned_part ==
  (fn \in {"random_from_array_v1", "random_from_array"}
     /\ pc = "done" /\ Len(arr) > 0) =>
    /\ RandomIndexOf(fn, arr, draws[1]) \in 0 .. (Len(arr) - 1)
    /\ ret = [elem |-> arr[RandomIndexOf(fn, arr, draws[1]) + 1]]
    /\ \A idx \in 0 .. (Len(arr) - 1) :
         \E k \in Draws : RandomIndexOf(fn, arr, k) = idx

---------------------------------------------------------------------------
(* C5, C6: shuffle_array *)

ShuffleFns == {"shuffle_array_utils", "shuffle_array"}

\* how many times e occurs in a
Count(a, e) == Cardinality({p \in 1 .. Len(a) : a[p] = e})

\* C5: at every step of shuffle_array, and so when it returns, the caller's
\* array has the length it had at the call and holds the same elements the
\* same number of times, whatever the draws.
C5_MultisetPreserved ==
  fn \in ShuffleFns =>
    /\ Len(arr) = Len(args.arr)
    /\ \A e \in Elems : Count(arr, e) = Count(args.arr, e)

\* a swap of the loop has changed the caller's array
C5_Witness ==
  /\ fn = "shuffle_array_utils"
  /\ Len(draws) >= 1
  /\ arr # args.arr

Distinct(a) == \A p, q \in 1 .. Len(a) : a[p] = a[q] => p = q

\* the orderings of the elements of a
Orderings(a) ==
  {o \in [1 .. Len(a) -> {a[p] : p \in 1 .. Len(a)}] : Distinct(o)}

\* how many draws a call of the revision f on a makes
DrawsOf(f, a) ==
  IF f = "shuffle_array_utils" THEN Max(Len(a) - 1, 0) ELSE Len(a)

\* the caller's array after the revision f of shuffle_array, called on a,
\* drew ds
FinalArray(f, a, ds) ==
  IF f = "shuffle_array_utils"
    THEN shuffle_array_utils(a, Len(a) - 1, ds)
    ELSE shuffle_array(a, ds).arr

\* the number of sequences of draws after which the caller's array is o
Ways(f, a, o) ==
  Cardinality({ds \in [1 .. DrawsOf(f, a) -> Draws] : FinalArray(f, a, ds) = o})

\* C6: shuffle_array leaves the caller's array in a uniformly distributed
\* ordering: called on distinct elements, each ordering is the final content
\* of the caller's array for the same number of sequences of draws, and that
\* number is not zero.  Stated for every revision of shuffle_array.
C6_UniformInPlace ==
  (fn \in ShuffleFns /\ pc = "done" /\ Distinct(args.arr)) =>
    /\ arr = FinalArray(fn, args.arr, draws)
    /\ \A o1, o2 \in Orderings(args.arr) :
         /\ Ways(fn, args.arr, o1) = Ways(fn, args.arr, o2)
         /\ Ways(fn, args.arr, o1) > 0

\* The same for the Fisher-Yates revisions alone.
UniformInPlace_utils ==
  (fn = "shuffle_array_utils" /\ pc = "done" /\ Distinct(args.arr)) =>
    /\ arr = FinalArray(fn, args.arr, draws)
    /\ \A o1, o2 \in Orderings(args.arr) :
         /\ Ways(fn, args.arr, o1) = Ways(fn, args.arr, o2)
         /\ Ways(fn, args.arr, o1) > 0

---------------------------------------------------------------------------
(* C7, C8: wrap *)

\* C7: for min_val < max_val, wrap returns r with min_val <= r <= max_val
\* that differs from value by a multiple of max_val - min_val; a value
\* within the limits is returned as it is; wrap(65, 0, 60) is 5 and
\* wrap(-5, 0, 60) is 55.
C7_WrapResult ==
  (fn = "wrap" /\ pc = "done" /\ min_val(args) < max_val(args)) =>
    /\ min_val(args) <= ret.num /\ ret.num <= max_val(args)
    /\ (ret.num - args.value) % (max_val(args) - min_val(args)) = 0
    /\ (min_val(args) <= args.value /\ args.value <= max_val(args)) =>
         ret.num = args.value
    /\ args = [value |-> 65, min_val |-> 0, max_val |-> 60] => ret.num = 5
    /\ args = [value |-> -5, min_val |-> 0, max_val |-> 60] => ret.num = 55

\* wrap(65, 0, 60) has returned 5
C7_Witness ==
  /\ fn = "wrap" /\ pc = "done"
  /\ args = [value |-> 65, min_val |-> 0, max_val |-> 60]
  /\ ret = Num(5)

\* how far v lies outside lo..hi
Distance(v, lo, hi) == IF v > hi THEN v - hi ELSE IF v < lo THEN lo - v ELSE 0

\* the next iteration would take value out of -WrapCap..WrapCap, where the
\* model stops following the call
WrapCapped ==
  \/ /\ pc = "wrap_while1" /\ value > max_val(args)
     /\ ~InCap(wrap_sub(value, min_val(args), max_val(args)))
  \/ /\ pc = "wrap_while2" /\ value < min_val(args)
     /\ ~InCap(wrap_add(value, min_val(args), max_val(args)))

\* C8, as claimed: every call of wrap returns, whatever value, min_val and
\* max_val are.  A call the model stops following counts as returned, so
\* that no violation rests on WrapCap.
C8_WrapAlwaysTerminates ==
  (fn = "wrap" /\ pc = "wrap_while1") ~> (pc = "done" \/ WrapCapped)

\* With min_val > max_val an iteration of either loop takes value further
\* from the interval, and the loop it is in never exits.
WrapReversedRunsAway ==
  [][(fn = "wrap" /\ min_val(args) > max_val(args) /\ value' # value) =>
       Distance(value', max_val(args), min_val(args))
         > Distance(value, max_val(args), min_val(args))]_vars

\* With min_val < max_val every call of wrap returns.
C8_WrapTerminates ==
  (fn = "wrap" /\ pc = "wrap_while1" /\ min_val(args) < max_val(args))
    ~> (pc = "done")

\* a call with min_val < max_val has returned after iterations of a loop
C8_Witness ==
  /\ fn = "wrap" /\ pc = "done"
  /\ min_val(args) < max_val(args)
  /\ ret # Num(args.value)

---------------------------------------------------------------------------
(* C9: clamp and constrain *)

\* lo if v < lo, hi if v > hi, v otherwise
Saturate(v, lo, hi) == IF v < lo THEN lo ELSE IF v > hi THEN hi ELSE v

\* C9: for min <= max, clamp and constrain both return min when the value is
\* below min, max when it is above max and the value otherwise, so they
\* return the same result; clamp(-5, -3, 10) is -3 and clamp(15, -3, 10) is 10.
C9_Saturation ==
  (fn \in {"clamp", "constrain"} /\ pc = "done"
     /\ min_val(args) <= max_val(args)) =>
    /\ ret = Num(Saturate(args.value, min_val(args), max_val(args)))
    /\ clamp(args) = constrain(args)
    /\ (fn = "clamp" /\ args = [value |-> -5, min_val |-> -3, max_val |-> 10])
         => ret = Num(-3)
    /\ (fn = "clamp" /\ args = [value |-> 15, min_val |-> -3, max_val |-> 10])
         => ret = Num(10)

\* clamp(15, -3, 10) has returned 10
C9_Witness ==
  /\ fn = "clamp" /\ pc = "done"
  /\ args = [value |-> 15, min_val |-> -3, max_val |-> 10]
  /\ ret = Num(10)

---------------------------------------------------------------------------
(* C10: dec_to_hex and hex_to_dec *)

\* C10: hex_to_dec gives back the number n >= 0 dec_to_hex was called on,
\* whatever the padding and the prefix flag; dec_to_hex returns at least
\* padding characters; dec_to_hex(232) is "E8" and dec_to_hex(12, 2) is "0C".
C10_HexRoundTrip ==
  /\ (fn = "hex_to_dec" /\ pc = "done") => ret = Num(prev.args.dec)
  /\ (fn = "dec_to_hex" /\ pc = "done") =>
       /\ Len(ret.str) >= Arg(args, "padding", 0)
       /\ args = [dec |-> 232] => ret.str = <<"E", "8">>
       /\ args = [dec |-> 12, padding |-> 2] => ret.str = <<"0", "C">>

\* hex_to_dec("0x00E8") has returned 232
C10_Witness ==
  /\ fn = "hex_to_dec" /\ pc = "done"
  /\ prev = [fn |-> "dec_to_hex",
             args |-> [dec |-> 232, padding |-> 4, prefix |-> TRUE]]
  /\ args = [hex |-> <<"0", "x", "0", "0", "E", "8">>]
  /\ ret = Num(232)

---------------------------------------------------------------------------
(* C11: the end points of the easing functions *)

\* C11: every easing function, poly_ease_in, poly_ease_out and
\* poly_ease_inout, returns 0 for x = 0 and 1 for x = 1, whatever the degree
\* n >= 1.  Stated for both revisions of the functions.
C11_EndPoints ==
  (fn \in EaseFns_v2 \cup EaseFns_last /\ pc = "done") =>
    /\ args.x = 0 => ret = Frac(0, 1)
    /\ args.x = EaseDen => ret = Frac(1, 1)

\* The same for the last revision alone.
EndPoints_last ==
  (fn \in EaseFns_last /\ pc = "done") =>
    /\ args.x = 0 => ret = Frac(0, 1)
    /\ args.x = EaseDen => ret = Frac(1, 1)

\* In the second revision poly_ease_inout alone has both end points right.
EndPoints_inout_v2 ==
  (fn = "poly_ease_inout_v2" /\ pc = "done") =>
    /\ args.x = 0 => ret = Frac(0, 1)
    /\ args.x = EaseDen => ret = Frac(1, 1)

\* What the second revision of poly_ease_in and poly_ease_out returns at the
\* end points: 2 ** (n - 1) at x = 1 and 1 - 2 ** (n - 1) at x = 0.
EndPoints_v2 ==
  (pc = "done") =>
    /\ (fn = "poly_ease_in_v2" /\ args.x = EaseDen) =>
         ret = Frac(Pow(2, args.n - 1), 1)
    /\ (fn = "poly_ease_out_v2" /\ args.x = 0) =>
         ret = Frac(1 - Pow(2, args.n - 1), 1)

---------------------------------------------------------------------------
(* C12: random_from_array on an empty array *)

\* C12 as stated: random_from_array called on an empty array fails with the
\* error EmptyInputError.
C12_EmptyRaises ==
  (fn \in RandomFromArrayFns /\ pc = "done" /\ Len(arr) = 0) =>
    ret = Raised("EmptyInputError")

\* C12, amended: random_from_array called on an empty array throws nothing
\* and returns undefined, the value of the read outside the array, whatever
\* the draw.  Stated for every revision of random_from_array.
C12_EmptyReturnsUndefined ==
  (fn \in RandomFromArrayFns /\ pc = "done" /\ Len(arr) = 0) =>
    /\ ret = Undefined
    /\ \A k \in Draws : RandomIndexOf(fn, arr, k) \notin DOMAIN arr
    /\ \A k \in Draws : ArrayGet(arr, RandomIndexOf(fn, arr, k)) = Undefined

\* random_from_array([]) has returned undefined
C12_Witness ==
  /\ fn = "random_from_array" /\ pc = "done"
  /\ args = [arr |-> <<>>] /\ arr = <<>> /\ ret = Undefined

---------------------------------------------------------------------------
(* C13: random_int without arguments *)

\* the revision f of random_int applied to the arguments as for the draw k
RandomIntOf(f, as, k) ==
  IF f = "random_int_utils" THEN random_int_utils(as, k) ELSE random_int(as, k)

\* C13: random_int() called without arguments returns 0 or 1, and each of 0
\* and 1 is returned for at least one draw.  Stated for every revision of
\* random_int.
C13_ZeroArgRange ==
  (fn \in {"random_int_utils", "random_int"} /\ pc = "done" /\ args = NoArgs) =>
    /\ ret \in {Num(0), Num(1)}
    /\ \A v \in {0, 1} : \E k \in Draws : RandomIntOf(fn, NoArgs, k) = Num(v)

\* The same for the revisions of part_000 alone.
ZeroArgRange_part ==
  (fn = "random_int" /\ pc = "done" /\ args = NoArgs) =>
    /\ ret \in {Num(0), Num(1)}
    /\ \A v \in {0, 1} : \E k \in Draws : random_int(NoArgs, k) = Num(v)

\* In src/utils.js random_int() returns 0 for every draw.
ZeroArg_utils ==
  (fn = "random_int_utils" /\ pc = "done" /\ args = NoArgs) =>
    /\ ret = Num(0)
    /\ \A k \in Draws : random_int_utils(NoArgs, k) = Num(0)

---------------------------------------------------------------------------
(* C14, C15: random_normal *)

\* the value min + (m/NormDen) ** s * (hi - lo) is the returned fraction
IsMapped(r, lo, hi, s, m) ==
  r.num * Pow(NormDen, s) = r.den * (lo * Pow(NormDen, s) + Pow(m, s) * (hi - lo))

\* a returned value of random_normal: the accepted num lies in [0,1], the
\* result is min + num ** skew * (max - min), and for min <= max it lies in
\* [min, max]
NormalInRange ==
  (fn = "random_normal" /\ pc = "done") =>
    LET lo == Arg(args, "min", 0)
        hi == Arg(args, "max", 1)
        s == Arg(args, "skew", 0)
    IN  /\ 0 <= value /\ value <= NormDen
        /\ IsMapped(ret, lo, hi, s, value)
        /\ (lo <= hi /\ s >= 0) =>
             (lo * ret.den <= ret.num /\ ret.num <= hi * ret.den)

\* the test of num: outside [0,1] nothing is returned and the call starts
\* again, inside [0,1] the call returns
NormalResamples ==
  (fn = "random_normal" /\ pc = "normal_num" /\ pc' # "normal_num") =>
    \/ /\ (value' < 0 \/ value' > NormDen)
       /\ pc' = "normal_u" /\ ret' = ret
    \/ /\ 0 <= value' /\ value' <= NormDen
       /\ pc' = "done"

\* C14: for min <= max and skew >= 0 every value random_normal(min, max, skew)
\* returns lies in [min, max]: a transformed draw outside [0,1] is never used
\* for the result and makes the function sample again, and only a draw inside
\* [0,1] is raised to the power skew and mapped to
\* min + num ** skew * (max - min).
C14_NormalInRange == []NormalInRange /\ [][NormalResamples]_vars

\* random_normal(-1, 1, 2) has sampled again at least once and has returned
\* -1 + (1/2) ** 2 * 2 = -1/2 for the accepted draw 1/2
C14_Witness ==
  /\ fn = "random_normal" /\ pc = "done" /\ i >= 1
  /\ args = [min |-> -1, max |-> 1, skew |-> 2]
  /\ 2 * value = NormDen /\ ret = Frac(-1, 2)

\* the draws random_normal accepts
Accepted == {m \in NormNums : 0 <= m /\ m <= NormDen}

---------------------------------------------------------------------------
(* C16: poly_ease_inout at the midpoint *)

\* whether the fraction r is at most the fraction q
FracLeq(r, q) == r.num * q.den <= q.num * r.den

\* C16: for every degree n >= 1 poly_ease_inout(0.5, n) is 0.5, the value
\* the branch for x < 0.5, x ** n * 2 ** (n - 1), has at x = 0.5, and the
\* curve does not decrease across x = 0.5: a value returned for an x >= 0.5 is
\* at least every value returned for an x < 0.5.  Stated for both revisions
\* of poly_ease_inout.
C16_MidpointMeets ==
  (fn \in {"poly_ease_inout_v2", "poly_ease_inout"} /\ pc = "done") =>
    LET n == Arg(args, "n", 2)
    IN  /\ ease_in_branch(EaseHalf, n) = Frac(1, 2)
        /\ args.x = EaseHalf => ret = Frac(1, 2)
        /\ 2 * args.x >= EaseDen =>
             \A xn \in 0 .. (EaseHalf - 1) : FracLeq(Ease(fn, xn, n), ret)

\* The same for the second revision alone.
MidpointMeets_v2 ==
  (fn = "poly_ease_inout_v2" /\ pc = "done") =>
    /\ ease_in_branch(EaseHalf, args.n) = Frac(1, 2)
    /\ args.x = EaseHalf => ret = Frac(1, 2)
    /\ 2 * args.x >= EaseDen =>
         \A xn \in 0 .. (EaseHalf - 1) :
           FracLeq(poly_ease_inout_v2(xn, args.n), ret)

\* What the last revision returns at the midpoint: 1 - 1 / 2 ** (n - 1), for
\* the default degree 2 alone the 1/2 of the other branch.
Midpoint_last ==
  (fn = "poly_ease_inout" /\ pc = "done" /\ args.x = EaseHalf) =>
    LET n == Arg(args, "n", 2)
    IN  /\ ret = Frac(Pow(2, n - 1) - 1, Pow(2, n - 1))
        /\ (ret = Frac(1, 2)) <=> (n = 2)

=============================================================================
